---- MODULE Spec2Model ----
(***************************************************************************)
(* Playback queue of minim (src/src/player.rs): the Vec<Track> queue, the  *)
(* queue_index cursor, the repeat mode and the insertion offset, each      *)
(* behind its own std::sync::Mutex, shared by the UI thread (Model::update *)
(* and the draw path) and by the audio thread that runs the on_track_end   *)
(* closure of WrappedSource.                                               *)
(*                                                                         *)
(* Every lock acquisition of the source is a step of its own, so that a    *)
(* thread can be observed while it holds one mutex and waits for another.  *)
(* A guard that is a temporary of one statement (`*x.lock().unwrap()`)     *)
(* is taken and dropped within one step.                                   *)
(*                                                                         *)
(* The rodio Sink is the external transport.  Its contract as used here:   *)
(* append() queues a source behind the ones already queued and, when       *)
(* stop() was called before, first waits until the stopped sources are     *)
(* flushed; stop() only raises a flag that the audio thread observes       *)
(* later, dropping the queued sources without running their sample         *)
(* iterators to the end; empty() tells whether no source is queued.        *)
(*                                                                         *)
(* Every library track is taken to open and decode (play_track's `if let   *)
(* Ok(decoder)` succeeds).  PlayPause and the volume messages do not touch *)
(* the queue and have no action here.  A second lock() of a mutex by the   *)
(* thread that holds it blocks that thread for good.                       *)
(***************************************************************************)
EXTENDS Integers, Sequences, FiniteSets, TLC

\* The library: the tracks the UI can pick (Model::tracks).
Tracks == {"A", "B", "C"}

\* Largest queue the model builds.
MaxLen == 3

\* Longest recorded run of consecutive advances.
MaxTrace == 4

None == "none"

\* The value of run when the calls since the last track start are not one
\* undisturbed sequence (a track started during a call, or an entry was removed).
Broken == <<None>>

Mutexes == {"queue_index", "queue", "repeat_mode", "insertion_offset"}

VARIABLES
    queue,             \* PlaybackState::queue
    queue_index,       \* PlaybackState::queue_index
    insertion_offset,  \* PlaybackState::insertion_offset
    repeat_mode,       \* PlayerSettings::repeat_mode
    holder,            \* which thread holds each Mutex: "none", "ui" or "cb"
    sink,              \* sources queued in the rodio Sink, the head is audible
    stopped,           \* the Sink's stop flag (set by stop(), cleared by append())
    uiOp,              \* the Message the UI thread is handling
    uiPc,              \* position of the UI thread inside that handler
    uiTrack,           \* the handler's `track`
    uiIndex,           \* the handler's `index` (copy of the cursor, or the row)
    uiCursor,          \* remove_track's `queue_index` (its first copy of the cursor)
    uiRow,             \* render_queue: the row being built (0-based)
    cbPc,              \* position of the audio thread inside on_track_end
    cbTrack,           \* the track on_track_end hands to play_track
    cbStale,           \* the running completion belongs to a source stop() abandoned
    trace,             \* cursor before, then after each consecutive advance
    run,               \* history: the tracks QueueTrackNext inserted since the last track start
    view,              \* PlayerState::main_panel_view
    search_bar,        \* Model::search_bar: the text of its first line
    pattern,           \* the matcher's pattern: the text parsed for each column
    dirty,             \* the matcher has work the next tick must start
    worker,            \* the text the matcher's worker is matching, if it is running
    snapshot,          \* the matcher's last finished match list
    results,           \* SearchState::results
    selfTrack,         \* Track::eq and Track::hash: `self`
    otherTrack,        \* Track::eq: `other`
    eqResult,          \* what Track::eq returned, <<>> before the call
    selfHash,          \* what Track::hash wrote for `self`, <<>> before the call
    otherHash,         \* what Track::hash wrote for `other`, <<>> before the call
    paused,            \* the Sink is paused (Sink::is_paused)
    volume_percentage, \* Model::volume_percentage
    focus,             \* PlayerState::focus
    sidebar_selected,  \* sidebar_table_state.selected(): <<>> for None, <<i>> for Some(i)
    results_selected,  \* search_results_table_state.selected(), likewise
    show_help,         \* PlayerState::show_help
    quit,              \* PlayerState::quit
    loopPc             \* position of Player::run inside its loop

\* The search state of the UI thread (SearchState and the search bar).
search == <<view, search_bar, pattern, dirty, worker, snapshot, results>>

\* The playback state.
playback == <<queue, queue_index, insertion_offset, repeat_mode, holder, sink, stopped,
              uiOp, uiPc, uiTrack, uiIndex, uiCursor, uiRow, cbPc, cbTrack, cbStale,
              trace, run>>

\* Two Track values and what comparing and hashing them gave.
compared == <<selfTrack, otherTrack, eqResult, selfHash, otherHash>>

\* The playback controls that do not touch the queue.
controls == <<paused, volume_percentage>>

\* The panels of the UI.
panels == <<focus, sidebar_selected, show_help, quit>>

\* The Model outside the playback queue.
display == <<search, compared, controls, panels, results_selected>>

\* What the handlers of the playback queue leave alone.
rest == <<display, loopPc>>

\* Player::run after handle_events has handled a key press: the tick comes next.
AfterKey(pc) == IF pc = "handle" THEN "tick" ELSE pc

\* Player::run after on_tick: the quit flag is looked at next.
AfterTick(pc) == IF pc = "tick" THEN "check" ELSE pc

vars == <<playback, rest>>

shared == <<queue, queue_index, insertion_offset, repeat_mode>>
uiLocals == <<uiTrack, uiIndex, uiCursor, uiRow>>
cbVars == <<cbPc, cbTrack, cbStale>>

----------------------------------------------------------------------------
\* Vec helpers (0-based indices, as in the source).

Get(q, i) == IF i < Len(q) THEN q[i + 1] ELSE None

Insert(q, i, t) == SubSeq(q, 1, i) \o <<t>> \o SubSeq(q, i + 1, Len(q))

Remove(q, i) == SubSeq(q, 1, i) \o SubSeq(q, i + 2, Len(q))

Min(a, b) == IF a < b THEN a ELSE b

\* Mutex helpers.
Free(m) == holder[m] = "none"

Acquire(t, m) == [holder EXCEPT ![m] = t]

ReleaseAll(t) == [m \in Mutexes |-> IF holder[m] = t THEN "none" ELSE holder[m]]

\* The process is alive until the UI (main) thread panics.
Alive == uiPc # "panicked"

----------------------------------------------------------------------------
\* The repeat policy.

\* Mutation: the skip forgets to leave a track that is set to repeat.
NextIndexSkipSingleStays(mode, qi, len) ==
    LET stepped == IF mode = "Single" THEN qi
                   ELSE IF mode = "Off" THEN qi + 1
                   ELSE IF qi + 1 >= len THEN 0 ELSE qi + 1
    IN  IF stepped > len THEN len ELSE stepped

\* Mutation: the skip wraps in every mode.
NextIndexSkipAlwaysWraps(mode, qi, len) ==
    LET stepped == IF qi + 1 >= len THEN 0 ELSE qi + 1
    IN  IF stepped > len THEN len ELSE stepped

\* next_track: the cursor after an explicit skip.
NextIndexSkip(mode, qi, len) ==
    LET stepped == IF mode \in {"Off", "Single"} THEN qi + 1
                   ELSE IF qi + 1 >= len THEN 0 ELSE qi + 1
    IN  IF stepped > len THEN len ELSE stepped

\* Mutation: the completion forgets the wrap of mode Queue.
NextIndexEndNeverWraps(mode, qi, len) ==
    IF mode \in {"Off", "Queue"} THEN qi + 1 ELSE qi

\* on_track_end: the cursor after a completion signal.
NextIndexEnd(mode, qi, len) ==
    IF mode = "Off" THEN qi + 1
    ELSE IF mode = "Queue" THEN (IF qi + 1 >= len THEN 0 ELSE qi + 1)
    ELSE qi

\* cycle_repeat_mode
CycleMode(mode) ==
    IF mode = "Off" THEN "Queue" ELSE IF mode = "Queue" THEN "Single" ELSE "Off"

\* The recorded run of advances: the cursor it started from, then the cursor after
\* each completion ("end") or skip ("skip"); the oldest entries are dropped.
Extend(tr, kind, before, after) ==
    LET full == IF tr = <<>> THEN <<[k |-> "start", c |-> before], [k |-> kind, c |-> after]>>
                ELSE Append(tr, [k |-> kind, c |-> after])
    IN  IF Len(full) > MaxTrace THEN SubSeq(full, Len(full) - MaxTrace + 1, Len(full))
        ELSE full

\* Any command other than a skip or a redraw ends the recorded run.
TraceAfter(op) == IF op \in {"NextTrack", "NowPlaying", "RenderQueue"} THEN trace ELSE <<>>

----------------------------------------------------------------------------
\* The search index (SearchState, player.rs 156-182).  The matcher is the nucleo
\* library.  Its contract as used here: reparse() replaces the text of one column and
\* marks the pattern as changed; tick(10) starts a new match when the pattern
\* changed or items were injected, dropping a match that is still running, waits at
\* most 10 ms for the worker, and swaps in the new match list only when the worker
\* has finished; snapshot() is the last match list swapped in.  An item matches
\* when the text of some column is matched by that column's pattern (the OR of the
\* fork the source names); the empty pattern matches every item.  The ranking of
\* the matches is not modelled: a match list is in library order.

\* SearchState::columns_to_search
Columns == {"Title", "Artist", "Album"}

\* The characters the search bar is fed with.
Chars == {"a", "b"}

\* Longest text typed into the search bar.
MaxQuery == 2

\* Model::tracks in library order (the items injected into the matcher).
Library == <<"A", "B", "C">>

\* Track::cached_field_string: the text of a track in a column.
Field(t, c) ==
    CASE t = "A" /\ c = "Title" -> <<"a">>
      [] t = "B" /\ c = "Artist" -> <<"b">>
      [] t = "C" /\ c = "Album" -> <<"a", "b">>
      [] OTHER -> <<>>

\* Fuzzy match of one column: the characters of q occur in s in this order.
RECURSIVE IsSubsequence(_, _)
IsSubsequence(q, s) ==
    IF q = <<>> THEN TRUE
    ELSE IF s = <<>> THEN FALSE
    ELSE IF Head(q) = Head(s) THEN IsSubsequence(Tail(q), Tail(s))
    ELSE IsSubsequence(q, Tail(s))

\* The match list of a pattern p (a text per column).
Matches(p) ==
    SelectSeq(Library, LAMBDA t : \E c \in Columns : IsSubsequence(p[c], Field(t, c)))

\* The pattern with the same text in every column.
AllColumns(text) == [c \in Columns |-> text]

----------------------------------------------------------------------------
\* Track values (track.rs 66-75) and their equality and hash (track.rs 174-186).
\* A path is its text.  std::path::Path compares and hashes paths by their
\* components, so a repeated or trailing separator makes no difference; that
\* is modelled by Components.  The Hasher is modelled by what is written to it.

\* The characters paths are made of.
PathChars == {"a", "/"}

\* Longest path text.
MaxPath == 2

\* PathBuf values.
Paths == UNION {[1..n -> PathChars] : n \in 0..MaxPath}

\* Option<String> values of a tag: None or some text.
TagValues == {"None", "x"}

\* Track::duration values.
Durations == {0, 1}

\* struct Track
TrackValues ==
    [path : Paths, title : TagValues, artist : TagValues, album : TagValues,
     duration : Durations]

\* Track::default(), derived: the empty path, no tags, duration 0.
DefaultTrack ==
    [path |-> <<>>, title |-> "None", artist |-> "None", album |-> "None", duration |-> 0]

\* The names between the separators of a path text, cur being the name read so far.
RECURSIVE NormalComponents(_, _)
NormalComponents(p, cur) ==
    IF p = <<>> THEN (IF cur = <<>> THEN <<>> ELSE <<cur>>)
    ELSE IF Head(p) = "/"
         THEN (IF cur = <<>> THEN <<>> ELSE <<cur>>) \o NormalComponents(Tail(p), <<>>)
         ELSE NormalComponents(Tail(p), Append(cur, Head(p)))

\* Path::components: the root, if the text starts with a separator, then the names.
Components(p) ==
    (IF p # <<>> /\ Head(p) = "/" THEN << <<"/">> >> ELSE <<>>) \o NormalComponents(p, <<>>)

\* PathBuf::eq
PathEq(p, q) == Components(p) = Components(q)

\* PathBuf::hash: the components are written to the hasher.
PathHash(p, state) == state \o Components(p)

\* A derived PartialEq would compare every field.
TrackEqDerived(a, b) ==
    /\ PathEq(a.path, b.path)
    /\ a.title = b.title
    /\ a.artist = b.artist
    /\ a.album = b.album
    /\ a.duration = b.duration

\* impl PartialEq for Track: eq
TrackEq(a, b) == PathEq(a.path, b.path)

\* impl Hash for Track: hash
TrackHash(t, state) == PathHash(t.path, state)

----------------------------------------------------------------------------
\* Model::new: nothing queued, nothing playing, the library view.
InitPlayback ==
    /\ queue = <<>>
    /\ queue_index = 0
    /\ insertion_offset = 0
    /\ repeat_mode = "Off"
    /\ holder = [m \in Mutexes |-> "none"]
    /\ sink = <<>>
    /\ stopped = FALSE
    /\ uiOp = None
    /\ uiPc = "idle"
    /\ uiTrack = None
    /\ uiIndex = 0
    /\ uiCursor = 0
    /\ uiRow = 0
    /\ cbPc = "idle"
    /\ cbTrack = None
    /\ cbStale = FALSE
    /\ trace = <<>>
    /\ run = <<>>

\* SearchState::new and the empty search bar.
InitSearch ==
    /\ view = "Library"
    /\ search_bar = <<>>
    /\ pattern = AllColumns(<<>>)
    /\ dirty = TRUE
    /\ worker = <<>>
    /\ snapshot = <<>>
    /\ results = <<>>

\* No Track has been compared or hashed.
NotCompared ==
    /\ eqResult = <<>>
    /\ selfHash = <<>>
    /\ otherHash = <<>>

\* Model::new: the sink plays, the volume is 50.
InitControls ==
    /\ paused = FALSE
    /\ volume_percentage = 50

\* PlayerState::default, the table states of Model::new, the loop about to draw.
InitPanels ==
    /\ focus = "MainPanel"
    /\ sidebar_selected = <<>>
    /\ results_selected = <<0>>
    /\ show_help = FALSE
    /\ quit = FALSE
    /\ loopPc = "draw"

Init ==
    /\ InitPlayback
    /\ InitSearch
    /\ InitControls
    /\ InitPanels
    /\ selfTrack = DefaultTrack
    /\ otherTrack = DefaultTrack
    /\ NotCompared

\* The handler returns: its guards are dropped and the UI loop goes on.
UiReturn ==
    /\ holder' = ReleaseAll("ui")
    /\ uiOp' = None
    /\ uiPc' = "idle"
    /\ uiTrack' = None
    /\ uiIndex' = 0
    /\ uiCursor' = 0
    /\ uiRow' = 0

\* A panic unwinds the main thread: the process ends.
UiPanic ==
    /\ holder' = ReleaseAll("ui")
    /\ uiPc' = "panicked"
    /\ UNCHANGED <<uiOp, uiTrack, uiIndex, uiCursor, uiRow>>

\* next_track returns: to remove_track when it was called from there.
NextTrackReturn ==
    IF uiOp = "RemoveFromQueue"
    THEN /\ holder' = ReleaseAll("ui")
         /\ uiPc' = "rm_lock_q"
         /\ uiTrack' = None
         /\ UNCHANGED <<uiOp, uiIndex, uiCursor, uiRow>>
    ELSE UiReturn

----------------------------------------------------------------------------
\* Model::play_track on the UI thread (player.rs 431-465).

\* `*playback_state.insertion_offset.lock().unwrap() = 0`
UiPlayResetOffset ==
    /\ uiPc = "play_io"
    /\ Free("insertion_offset")
    /\ insertion_offset' = 0
    /\ uiPc' = "play_append"
    /\ trace' = TraceAfter(uiOp)
    /\ UNCHANGED <<queue, queue_index, repeat_mode, holder, sink, stopped, uiOp,
                   uiLocals, cbVars>>
    /\ UNCHANGED <<rest, run>>

\* `playback_state.sink.append(source)`, then the return to the caller.
UiPlayAppend ==
    /\ uiPc = "play_append"
    /\ ~stopped \/ sink = <<>>
    /\ sink' = Append(sink, uiTrack)
    /\ stopped' = FALSE
    /\ NextTrackReturn
    /\ trace' = TraceAfter(uiOp)
    /\ UNCHANGED <<shared, cbVars>>
    /\ run' = <<>>
    /\ UNCHANGED rest

----------------------------------------------------------------------------
\* Message::QueueTrack (player.rs 328-333).

\* queue_track: push under the queue lock.
QueueTrackPush(t) ==
    /\ uiPc = "idle"
    /\ Len(queue) < MaxLen
    /\ Free("queue")
    /\ queue' = Append(queue, t)
    /\ uiOp' = "QueueTrack"
    /\ uiPc' = "qt_check"
    /\ uiTrack' = t
    /\ trace' = <<>>
    /\ UNCHANGED <<queue_index, insertion_offset, repeat_mode, holder, sink, stopped,
                   uiIndex, uiCursor, uiRow, cbVars>>
    /\ loopPc' = AfterKey(loopPc)
    /\ UNCHANGED <<display, run>>

\* `if self.playback_state.sink.empty()`
QueueTrackCheck ==
    /\ uiPc = "qt_check"
    /\ IF sink = <<>>
       THEN /\ uiPc' = "play_io"
            /\ UNCHANGED <<holder, uiOp, uiLocals>>
       ELSE UiReturn
    /\ trace' = <<>>
    /\ UNCHANGED <<shared, sink, stopped, cbVars>>
    /\ UNCHANGED <<rest, run>>

----------------------------------------------------------------------------
\* Message::QueueTrackNext (player.rs 334-349).

\* `let index = *self.playback_state.queue_index.lock().unwrap();`
QueueTrackNextRead(t) ==
    /\ uiPc = "idle"
    /\ Len(queue) < MaxLen
    /\ Free("queue_index")
    /\ uiOp' = "QueueTrackNext"
    /\ uiPc' = "qtn_lock_io"
    /\ uiTrack' = t
    /\ uiIndex' = queue_index
    /\ trace' = <<>>
    /\ UNCHANGED <<shared, holder, sink, stopped, uiCursor, uiRow, cbVars>>
    /\ loopPc' = AfterKey(loopPc)
    /\ UNCHANGED <<display, run>>

\* `let mut offset = ...insertion_offset.lock().unwrap(); *offset += 1;`
QueueTrackNextOffset ==
    /\ uiPc = "qtn_lock_io"
    /\ Free("insertion_offset")
    /\ holder' = Acquire("ui", "insertion_offset")
    /\ insertion_offset' = insertion_offset + 1
    /\ uiPc' = "qtn_lock_q"
    /\ trace' = <<>>
    /\ UNCHANGED <<queue, queue_index, repeat_mode, sink, stopped, uiOp, uiLocals, cbVars>>
    /\ UNCHANGED <<rest, run>>

\* Mutation: the track is always inserted right after the cursor, whatever the
\* insertion offset is.
QueueTrackNextInsertAfterCursor ==
    /\ uiPc = "qtn_lock_q"
    /\ Free("queue")
    /\ IF uiIndex + 1 > Len(queue)
       THEN /\ UiPanic
            /\ UNCHANGED queue
       ELSE /\ queue' = Insert(queue, uiIndex + 1, uiTrack)
            /\ IF sink = <<>>
               THEN /\ holder' = Acquire("ui", "queue")
                    /\ uiPc' = "play_io"
                    /\ UNCHANGED <<uiOp, uiLocals>>
               ELSE UiReturn
    /\ trace' = <<>>
    /\ UNCHANGED <<queue_index, insertion_offset, repeat_mode, sink, stopped, cbVars>>
    /\ run' = IF uiIndex + 1 > Len(queue) \/ run = Broken THEN run
            ELSE Append(run, uiTrack)
    /\ UNCHANGED rest

\* `queue.insert(index + *offset, track.clone())`, then the sink.empty() test.
QueueTrackNextInsert ==
    /\ uiPc = "qtn_lock_q"
    /\ Free("queue")
    /\ IF uiIndex + insertion_offset > Len(queue)
       THEN /\ UiPanic
            /\ UNCHANGED queue
       ELSE /\ queue' = Insert(queue, uiIndex + insertion_offset, uiTrack)
            /\ IF sink = <<>>
               THEN /\ holder' = Acquire("ui", "queue")
                    /\ uiPc' = "play_io"
                    /\ UNCHANGED <<uiOp, uiLocals>>
               ELSE UiReturn
    /\ trace' = <<>>
    /\ UNCHANGED <<queue_index, insertion_offset, repeat_mode, sink, stopped, cbVars>>
    /\ run' = IF uiIndex + insertion_offset > Len(queue) \/ run = Broken THEN run
            ELSE Append(run, uiTrack)
    /\ UNCHANGED rest

----------------------------------------------------------------------------
\* Model::next_track (player.rs 468-493), also called by remove_track.

\* Message::NextTrack: `self.playback_state.sink.stop()`
NextTrackStop ==
    /\ uiPc = "idle"
    /\ uiOp' = "NextTrack"
    /\ uiPc' = "nt_lock_qi"
    /\ stopped' = TRUE
    /\ cbStale' = (cbStale \/ cbPc # "idle")
    /\ UNCHANGED <<shared, holder, sink, uiLocals, cbPc, cbTrack, trace>>
    /\ loopPc' = AfterKey(loopPc)
    /\ UNCHANGED <<display, run>>

\* `let mut queue_index = self.playback_state.queue_index.lock().unwrap();`
NextTrackLockIndex ==
    /\ uiPc = "nt_lock_qi"
    /\ Free("queue_index")
    /\ holder' = Acquire("ui", "queue_index")
    /\ uiPc' = "nt_lock_q"
    /\ trace' = TraceAfter(uiOp)
    /\ UNCHANGED <<shared, sink, stopped, uiOp, uiLocals, cbVars>>
    /\ UNCHANGED <<rest, run>>

\* Mutation: the skip takes the skipped entry out of the queue.
NextTrackAdvanceConsumes ==
    /\ uiPc = "nt_lock_q"
    /\ Free("queue")
    /\ Free("repeat_mode")
    /\ LET new == NextIndexSkip(repeat_mode, queue_index, Len(queue))
       IN  /\ queue_index' = new
           /\ trace' = IF uiOp = "NextTrack" THEN Extend(trace, "skip", queue_index, new)
                       ELSE <<>>
           /\ IF Get(queue, new) # None
              THEN /\ holder' = Acquire("ui", "queue")
                   /\ uiPc' = "play_io"
                   /\ uiTrack' = Get(queue, new)
                   /\ UNCHANGED <<uiOp, uiIndex, uiCursor, uiRow>>
              ELSE NextTrackReturn
    /\ queue' = IF queue_index < Len(queue) THEN Remove(queue, queue_index) ELSE queue
    /\ UNCHANGED <<insertion_offset, repeat_mode, sink, stopped, cbVars>>
    /\ UNCHANGED <<rest, run>>

\* The queue lock, the repeat-mode match, the clamp and `queue.get(*queue_index)`.
NextTrackAdvance ==
    /\ uiPc = "nt_lock_q"
    /\ Free("queue")
    /\ Free("repeat_mode")
    /\ LET new == NextIndexSkip(repeat_mode, queue_index, Len(queue))
       IN  /\ queue_index' = new
           /\ trace' = IF uiOp = "NextTrack" THEN Extend(trace, "skip", queue_index, new)
                       ELSE <<>>
           /\ IF Get(queue, new) # None
              THEN /\ holder' = Acquire("ui", "queue")
                   /\ uiPc' = "play_io"
                   /\ uiTrack' = Get(queue, new)
                   /\ UNCHANGED <<uiOp, uiIndex, uiCursor, uiRow>>
              ELSE NextTrackReturn
    /\ UNCHANGED <<queue, insertion_offset, repeat_mode, sink, stopped, cbVars>>
    /\ UNCHANGED <<rest, run>>

----------------------------------------------------------------------------
\* Model::previous_track (player.rs 496-508).

\* Message::PrevTrack: `self.playback_state.sink.stop()`
PrevTrackStop ==
    /\ uiPc = "idle"
    /\ uiOp' = "PrevTrack"
    /\ uiPc' = "pt_lock_qi"
    /\ stopped' = TRUE
    /\ cbStale' = (cbStale \/ cbPc # "idle")
    /\ trace' = <<>>
    /\ UNCHANGED <<shared, holder, sink, uiLocals, cbPc, cbTrack>>
    /\ loopPc' = AfterKey(loopPc)
    /\ UNCHANGED <<display, run>>

\* Mutation: previous_track forgets to step back.
PrevTrackStepBackStays ==
    /\ uiPc = "pt_lock_qi"
    /\ Free("queue_index")
    /\ holder' = Acquire("ui", "queue_index")
    /\ queue_index' = queue_index
    /\ uiPc' = "pt_lock_q"
    /\ trace' = <<>>
    /\ UNCHANGED <<queue, insertion_offset, repeat_mode, sink, stopped, uiOp, uiLocals,
                   cbVars>>
    /\ UNCHANGED <<rest, run>>

\* The queue_index lock and `if *queue_index > 0 { *queue_index -= 1; }`
PrevTrackStepBack ==
    /\ uiPc = "pt_lock_qi"
    /\ Free("queue_index")
    /\ holder' = Acquire("ui", "queue_index")
    /\ queue_index' = IF queue_index > 0 THEN queue_index - 1 ELSE queue_index
    /\ uiPc' = "pt_lock_q"
    /\ trace' = <<>>
    /\ UNCHANGED <<queue, insertion_offset, repeat_mode, sink, stopped, uiOp, uiLocals,
                   cbVars>>
    /\ UNCHANGED <<rest, run>>

\* The queue lock and `queue.get(*queue_index)`.
PrevTrackGet ==
    /\ uiPc = "pt_lock_q"
    /\ Free("queue")
    /\ IF Get(queue, queue_index) # None
       THEN /\ holder' = Acquire("ui", "queue")
            /\ uiPc' = "play_io"
            /\ uiTrack' = Get(queue, queue_index)
            /\ UNCHANGED <<uiOp, uiIndex, uiCursor, uiRow>>
       ELSE UiReturn
    /\ trace' = <<>>
    /\ UNCHANGED <<shared, sink, stopped, cbVars>>
    /\ UNCHANGED <<rest, run>>

----------------------------------------------------------------------------
\* Model::remove_track (player.rs 511-527).

\* `let queue_index = *...queue_index.lock().unwrap(); if index == queue_index`
\* The index is the row selected in the sidebar: a row of the queue, or the row just
\* past it (the selection stays where it was when the queue shrinks).
RemoveRead(index) ==
    /\ uiPc = "idle"
    /\ queue # <<>>
    /\ Free("queue_index")
    /\ uiOp' = "RemoveFromQueue"
    /\ uiIndex' = index
    /\ uiCursor' = queue_index
    /\ uiPc' = IF index = queue_index THEN "rm_next_track" ELSE "rm_lock_q"
    /\ trace' = <<>>
    /\ UNCHANGED <<shared, holder, sink, stopped, uiTrack, uiRow, cbVars>>
    /\ loopPc' = AfterKey(loopPc)
    /\ UNCHANGED <<display, run>>

\* `self.next_track()`: its `sink.stop()`
RemoveNextTrackStop ==
    /\ uiPc = "rm_next_track"
    /\ uiPc' = "nt_lock_qi"
    /\ stopped' = TRUE
    /\ cbStale' = (cbStale \/ cbPc # "idle")
    /\ trace' = <<>>
    /\ UNCHANGED <<shared, holder, sink, uiOp, uiLocals, cbPc, cbTrack>>
    /\ UNCHANGED <<rest, run>>

\* `let mut queue = self.playback_state.queue.lock().unwrap();`
RemoveLockQueue ==
    /\ uiPc = "rm_lock_q"
    /\ Free("queue")
    /\ holder' = Acquire("ui", "queue")
    /\ uiPc' = "rm_lock_qi"
    /\ trace' = <<>>
    /\ UNCHANGED <<shared, sink, stopped, uiOp, uiLocals, cbVars>>
    /\ UNCHANGED <<rest, run>>

\* The queue_index lock, the decrement, `queue.remove(index)` and the clamp.
RemoveEntry ==
    /\ uiPc = "rm_lock_qi"
    /\ Free("queue_index")
    /\ LET moved == IF uiIndex < queue_index THEN queue_index - 1 ELSE queue_index
       IN  IF uiIndex >= Len(queue)
           THEN /\ queue_index' = moved
                /\ UiPanic
                /\ UNCHANGED queue
           ELSE /\ queue' = Remove(queue, uiIndex)
                /\ queue_index' = Min(moved, Len(queue) - 1)
                /\ UiReturn
    /\ trace' = <<>>
    /\ UNCHANGED <<insertion_offset, repeat_mode, sink, stopped, cbVars>>
    /\ run' = IF uiIndex >= Len(queue) \/ run = <<>> THEN run ELSE Broken
    /\ UNCHANGED rest

----------------------------------------------------------------------------
\* Mutation: changing the mode also stops the sink.
CycleRepeatModeStops ==
    /\ uiPc = "idle"
    /\ Free("repeat_mode")
    /\ repeat_mode' = CycleMode(repeat_mode)
    /\ stopped' = TRUE
    /\ trace' = <<>>
    /\ UNCHANGED <<queue, queue_index, insertion_offset, holder, sink, uiOp, uiPc,
                   uiLocals, cbVars>>
    /\ UNCHANGED <<rest, run>>

\* Model::cycle_repeat_mode (player.rs 368-375).
CycleRepeatMode ==
    /\ uiPc = "idle"
    /\ Free("repeat_mode")
    /\ repeat_mode' = CycleMode(repeat_mode)
    /\ trace' = <<>>
    /\ UNCHANGED <<queue, queue_index, insertion_offset, holder, sink, stopped, uiOp, uiPc,
                   uiLocals, cbVars>>
    /\ loopPc' = AfterKey(loopPc)
    /\ UNCHANGED <<display, run>>

----------------------------------------------------------------------------
\* Model::now_playing (player.rs 395-400), called by render_gauges on every draw.

\* `let queue_guard = self.playback_state.queue.lock().unwrap();`
NowPlayingLockQueue ==
    /\ uiPc = "idle"
    /\ Free("queue")
    /\ holder' = Acquire("ui", "queue")
    /\ uiOp' = "NowPlaying"
    /\ uiPc' = "np_lock_qi"
    /\ UNCHANGED <<shared, sink, stopped, uiLocals, cbVars, trace>>
    /\ UNCHANGED <<rest, run>>

\* `.get(*self.playback_state.queue_index.lock().unwrap()).cloned()`
NowPlayingRead ==
    /\ uiPc = "np_lock_qi"
    /\ Free("queue_index")
    /\ UiReturn
    /\ UNCHANGED <<shared, sink, stopped, cbVars, trace>>
    /\ UNCHANGED <<rest, run>>

\* The value now_playing() returns in the current state.
NowPlaying == Get(queue, queue_index)

----------------------------------------------------------------------------
\* Player::render_queue (player.rs 1341-1353), called on every draw.

\* `model.playback_state.queue.lock().unwrap().iter().enumerate()`
\* (on an empty queue the guard is dropped again with no row built: no step).
RenderQueueLockQueue ==
    /\ uiPc = "idle"
    /\ Free("queue")
    /\ queue # <<>>
    /\ holder' = Acquire("ui", "queue")
    /\ uiOp' = "RenderQueue"
    /\ uiPc' = "rq_lock_qi"
    /\ uiRow' = 0
    /\ UNCHANGED <<shared, sink, stopped, uiTrack, uiIndex, uiCursor, cbVars, trace>>
    /\ UNCHANGED <<rest, run>>

\* Per row: `let queue_index = model.playback_state.queue_index.lock().unwrap();`
RenderQueueLockIndex ==
    /\ uiPc = "rq_lock_qi"
    /\ Free("queue_index")
    /\ holder' = Acquire("ui", "queue_index")
    /\ uiPc' = "rq_lock_io"
    /\ UNCHANGED <<shared, sink, stopped, uiOp, uiLocals, cbVars, trace>>
    /\ UNCHANGED <<rest, run>>

\* Per row: `let offset = ...insertion_offset.lock().unwrap();`, then the row is built
\* and both guards are dropped; after the last row the queue guard is dropped too.
RenderQueueRow ==
    /\ uiPc = "rq_lock_io"
    /\ Free("insertion_offset")
    /\ IF uiRow + 1 < Len(queue)
       THEN /\ holder' = [holder EXCEPT !["queue_index"] = "none"]
            /\ uiRow' = uiRow + 1
            /\ uiPc' = "rq_lock_qi"
            /\ UNCHANGED <<uiOp, uiTrack, uiIndex, uiCursor>>
       ELSE UiReturn
    /\ UNCHANGED <<shared, sink, stopped, cbVars, trace>>
    /\ UNCHANGED <<rest, run>>

----------------------------------------------------------------------------
\* The audio thread: WrappedSource::next (player.rs 1431-1438) and the on_track_end
\* closure built by play_track (player.rs 440-460).

\* The audible source returns None: `(self.on_track_end)()` is entered.
TrackEnd ==
    /\ Alive
    /\ cbPc = "idle"
    /\ sink # <<>>
    /\ ~paused
    /\ cbPc' = "cb_lock_qi"
    /\ cbStale' = stopped
    /\ UNCHANGED <<shared, holder, sink, stopped, uiOp, uiPc, uiLocals, cbTrack, trace>>
    /\ UNCHANGED <<rest, run>>

\* `let mut queue_index = playback_clone.queue_index.lock().unwrap();`
EndLockIndex ==
    /\ Alive
    /\ cbPc = "cb_lock_qi"
    /\ Free("queue_index")
    /\ holder' = Acquire("cb", "queue_index")
    /\ cbPc' = "cb_lock_q"
    /\ UNCHANGED <<shared, sink, stopped, uiOp, uiPc, uiLocals, cbTrack, cbStale, trace>>
    /\ UNCHANGED <<rest, run>>

\* The closure returns and the finished source leaves the sink.
EndReturn ==
    /\ holder' = ReleaseAll("cb")
    /\ cbPc' = "idle"
    /\ cbTrack' = None
    /\ cbStale' = FALSE

\* The queue lock, the repeat-mode match and `queue.get(*queue_index)`.
EndAdvance ==
    /\ Alive
    /\ cbPc = "cb_lock_q"
    /\ Free("queue")
    /\ Free("repeat_mode")
    /\ LET new == NextIndexEnd(repeat_mode, queue_index, Len(queue))
       IN  /\ queue_index' = new
           /\ trace' = Extend(trace, "end", queue_index, new)
           /\ IF Get(queue, new) # None
              THEN /\ holder' = Acquire("cb", "queue")
                   /\ cbPc' = "cb_play_io"
                   /\ cbTrack' = Get(queue, new)
                   /\ UNCHANGED <<cbStale, sink>>
              ELSE /\ EndReturn
                   /\ sink' = Tail(sink)
    /\ UNCHANGED <<queue, insertion_offset, repeat_mode, stopped, uiOp, uiPc, uiLocals>>
    /\ UNCHANGED <<rest, run>>

\* play_track in the closure: `*playback_state.insertion_offset.lock().unwrap() = 0`
EndPlayResetOffset ==
    /\ Alive
    /\ cbPc = "cb_play_io"
    /\ Free("insertion_offset")
    /\ insertion_offset' = 0
    /\ cbPc' = "cb_append"
    /\ UNCHANGED <<queue, queue_index, repeat_mode, holder, sink, stopped, uiOp, uiPc,
                   uiLocals, cbTrack, cbStale, trace>>
    /\ UNCHANGED <<rest, run>>

\* play_track in the closure: `sink.append(source)`; the closure then returns.  The
\* finished source is still queued while the closure runs, so a raised stop flag
\* makes append wait for a flush that cannot happen.
EndPlayAppend ==
    /\ Alive
    /\ cbPc = "cb_append"
    /\ ~stopped
    /\ sink' = Append(Tail(sink), cbTrack)
    /\ EndReturn
    /\ UNCHANGED <<shared, stopped, uiOp, uiPc, uiLocals, trace>>
    /\ run' = IF uiOp = "QueueTrackNext" THEN Broken ELSE <<>>
    /\ UNCHANGED rest

\* The audio thread observes the stop flag: the queued sources are dropped without
\* reaching the end of their samples, so on_track_end does not run for them.
SinkFlush ==
    /\ Alive
    /\ cbPc = "idle"
    /\ stopped
    /\ sink # <<>>
    /\ sink' = <<>>
    /\ UNCHANGED <<shared, holder, stopped, uiOp, uiPc, uiLocals, cbVars, trace>>
    /\ UNCHANGED <<rest, run>>

----------------------------------------------------------------------------
Next ==
    \/ \E t \in Tracks : QueueTrackPush(t)
    \/ QueueTrackCheck
    \/ \E t \in Tracks : QueueTrackNextRead(t)
    \/ QueueTrackNextOffset
    \/ QueueTrackNextInsert
    \/ UiPlayResetOffset
    \/ UiPlayAppend
    \/ NextTrackStop
    \/ NextTrackLockIndex
    \/ NextTrackAdvance
    \/ PrevTrackStop
    \/ PrevTrackStepBack
    \/ PrevTrackGet
    \/ \E index \in 0..Len(queue) : RemoveRead(index)
    \/ RemoveNextTrackStop
    \/ RemoveLockQueue
    \/ RemoveEntry
    \/ CycleRepeatMode
    \/ NowPlayingLockQueue
    \/ NowPlayingRead
    \/ RenderQueueLockQueue
    \/ RenderQueueLockIndex
    \/ RenderQueueRow
    \/ TrackEnd
    \/ EndLockIndex
    \/ EndAdvance
    \/ EndPlayResetOffset
    \/ EndPlayAppend
    \/ SinkFlush

Spec == Init /\ [][Next]_vars

TypeOK ==
    /\ queue \in Seq(Tracks)
    /\ Len(queue) <= MaxLen
    /\ queue_index \in Nat
    /\ insertion_offset \in Nat
    /\ repeat_mode \in {"Off", "Queue", "Single"}
    /\ Len(sink) <= 1

----------------------------------------------------------------------------
\* Vocabulary of the properties.

\* The commands that are queue transitions.
QueueCommands == {"QueueTrack", "QueueTrackNext", "RemoveFromQueue", "NextTrack", "PrevTrack"}

\* No handler and no completion is in progress.
Quiescent == uiPc = "idle" /\ cbPc = "idle"

\* The mutex the UI thread is about to lock, if any.
UiWants ==
    CASE uiPc \in {"nt_lock_qi", "pt_lock_qi", "rm_lock_qi", "np_lock_qi", "rq_lock_qi"}
            -> "queue_index"
      [] uiPc \in {"nt_lock_q", "pt_lock_q", "rm_lock_q", "qtn_lock_q"} -> "queue"
      [] uiPc \in {"qtn_lock_io", "rq_lock_io", "play_io"} -> "insertion_offset"
      [] OTHER -> None

\* The mutex the completion callback is about to lock, if any.
CbWants ==
    CASE cbPc = "cb_lock_qi" -> "queue_index"
      [] cbPc = "cb_lock_q" -> "queue"
      [] cbPc = "cb_play_io" -> "insertion_offset"
      [] OTHER -> None

\* The step is the completion callback's advance of the cursor.
EndAdvanceStep == cbPc = "cb_lock_q" /\ cbPc' # "cb_lock_q"

\* The step is next_track's advance of the cursor.
SkipAdvanceStep == uiPc = "nt_lock_q" /\ uiPc' # "nt_lock_q"

----------------------------------------------------------------------------
\* C1: whenever no transition is in progress, 0 <= queue_index <= queue.len().
C1_CursorInRange == Quiescent => (0 <= queue_index /\ queue_index <= Len(queue))

\* C2: every queue transition is one atomic critical section: while a UI command
\* that changes the queue is between its first and its last step, the completion
\* callback takes no mutex and changes nothing; and while the callback holds the
\* cursor, the UI thread takes no mutex.
C2_AtomicTransitions ==
    [][/\ (uiOp \in QueueCommands /\ uiPc # "panicked")
            => (\A m \in Mutexes : holder'[m] = "cb" => holder[m] = "cb")
       /\ (cbPc \in {"cb_lock_q", "cb_play_io", "cb_append"})
            => (\A m \in Mutexes : holder'[m] = "ui" => holder[m] = "ui")]_vars

\* C3: the callback and the UI thread never wait for each other's mutex.
C3_NoMutualWait ==
    ~(/\ UiWants # None
      /\ CbWants # None
      /\ holder[UiWants] = "cb"
      /\ holder[CbWants] = "ui")

\* C4: the completion of a track that stop() abandoned is discarded: it does not
\* move the cursor and does not start a track.
C4_StaleCompletionDiscarded ==
    [][(cbStale /\ EndAdvanceStep) => (queue_index' = queue_index /\ cbTrack' = None)]_vars

\* C5: in mode Single a completion leaves cursor and entries unchanged and hands the
\* track that just ended to play_track again.
C5_SingleReplaysSameTrack ==
    [][(EndAdvanceStep /\ repeat_mode = "Single")
          => /\ queue_index' = queue_index
             /\ queue' = queue
             /\ cbPc' = "cb_play_io"
             /\ cbTrack' = Head(sink)]_vars

\* The step completes the sink.append of a play_track called by next_track.
SkipAppendStep ==
    uiPc = "play_append" /\ uiPc' # "play_append" /\ uiOp \in {"NextTrack", "RemoveFromQueue"}

\* The step completes the sink.append of the play_track called by on_track_end.
EndAppendStep == cbPc = "cb_append" /\ cbPc' # "cb_append"

\* In the recorded run every entry of kind k follows its predecessor by f.
RunFollows(tr, k, f(_)) ==
    \A i \in 2..Len(tr) : tr[i].k = k => tr[i].c = f(tr[i - 1].c)

\* C6: in mode Single an explicit skip moves the cursor to cursor + 1, clamped to
\* the length, as in mode Off, leaves the entries alone and starts the track at the
\* new cursor if there is one; consecutive skips visit successive entries.
C6_SingleSkipAdvances ==
    [][/\ (SkipAdvanceStep /\ repeat_mode = "Single")
            => /\ queue_index' = Min(queue_index + 1, Len(queue))
               /\ queue_index' = NextIndexSkip("Off", queue_index, Len(queue))
               /\ queue' = queue
               /\ queue_index' < Len(queue)
                    => (uiPc' = "play_io" /\ uiTrack' = queue[queue_index' + 1])
               /\ queue_index' >= Len(queue) => uiPc' # "play_io"
       /\ (SkipAppendStep /\ repeat_mode = "Single")
            => sink' = <<queue[queue_index + 1]>>
       /\ repeat_mode' = "Single"
            => LET len == Len(queue') IN
               RunFollows(trace', "skip", LAMBDA c : Min(c + 1, len))]_vars

\* Two skips in a row in mode Single have moved to the next two, distinct, entries
\* and the second of them is audible.
C6_Witness ==
    /\ Quiescent
    /\ repeat_mode = "Single"
    /\ Len(trace) = 3
    /\ trace[2] = [k |-> "skip", c |-> trace[1].c + 1]
    /\ trace[3] = [k |-> "skip", c |-> trace[1].c + 2]
    /\ queue_index = trace[3].c
    /\ queue_index < Len(queue)
    /\ queue[queue_index] # queue[queue_index + 1]
    /\ sink = <<queue[queue_index + 1]>>

\* C7: in mode Off a completion adds one to the cursor and starts nothing when the
\* cursor reaches the length; an explicit skip adds one but never passes the length
\* and never wraps to 0, also on a queue that is already exhausted.
C7_OffAdvanceStops ==
    [][/\ (EndAdvanceStep /\ repeat_mode = "Off")
            => /\ queue_index' = queue_index + 1
               /\ queue_index' = Len(queue)
                    => (cbPc' = "idle" /\ cbTrack' = None /\ sink' = <<>>)
       /\ (SkipAdvanceStep /\ repeat_mode = "Off")
            => /\ queue_index' = Min(queue_index + 1, Len(queue))
               /\ queue_index >= Len(queue)
                    => (queue_index' = Len(queue) /\ uiPc' # "play_io" /\ sink' = sink)
               /\ queue_index' = 0 => Len(queue) = 0
       /\ repeat_mode' = "Off"
            => LET len == Len(queue') IN
               /\ RunFollows(trace', "skip", LAMBDA c : Min(c + 1, len))
               /\ RunFollows(trace', "end", LAMBDA c : c + 1)]_vars

\* In mode Off the last track has ended, which stopped playback at the length, and
\* two skips on the exhausted queue have left the cursor there.
C7_Witness ==
    /\ Quiescent
    /\ repeat_mode = "Off"
    /\ queue # <<>>
    /\ queue_index = Len(queue)
    /\ sink = <<>>
    /\ trace = <<[k |-> "start", c |-> Len(queue) - 1], [k |-> "end", c |-> Len(queue)],
                 [k |-> "skip", c |-> Len(queue)], [k |-> "skip", c |-> Len(queue)]>>

\* The cursor after cursor + 1 with the wrap of mode Queue.
Wrapped(qi, len) == IF qi + 1 >= len THEN 0 ELSE qi + 1

C9_EndAndSkipAgree ==
    (Quiescent /\ sink # <<>> /\ ~stopped /\ repeat_mode \in {"Off", "Queue"})
        => LET e == NextIndexEnd(repeat_mode, queue_index, Len(queue))
               n == NextIndexSkip(repeat_mode, queue_index, Len(queue))
           IN  e = n /\ Get(queue, e) = Get(queue, n)

\* C10: QueueTrack appends the track and keeps the cursor; when the queue was
\* exhausted it starts the track, which now_playing() then returns; otherwise the
\* cursor and the playing track stay as they were.
C10_Enqueue ==
    [][/\ (uiPc = "idle" /\ uiOp' = "QueueTrack")
            => (queue' = Append(queue, uiTrack') /\ queue_index' = queue_index /\ sink' = sink)
       /\ (/\ uiPc = "qt_check" /\ uiPc' # "qt_check"
           /\ queue_index >= Len(queue) - 1
           /\ cbPc = "idle"
           /\ (sink = <<>> \/ stopped))
            => uiPc' = "play_io"
       /\ (uiOp = "QueueTrack" /\ uiPc = "play_append" /\ uiPc' = "idle")
            => (sink' = <<uiTrack>> /\ Get(queue', queue_index') = uiTrack)
       /\ (uiOp = "QueueTrack" /\ uiPc = "qt_check" /\ uiPc' = "idle")
            => (sink' = sink /\ queue_index' = queue_index)]_vars

----------------------------------------------------------------------------
\* The step is QueueTrackNext's `queue.insert(index + *offset, track)`.
InsertNextStep == uiPc = "qtn_lock_q" /\ uiPc' # "qtn_lock_q"

\* C11: QueueTrackNext inserts the track at cursor + insertion_offset + 1, the offset
\* being the one from before the command (it is incremented first, so the row is
\* cursor + the incremented offset), adds one to the offset and leaves the cursor
\* and the order of the other entries alone; on [A,B] at cursor 0 with no pending
\* insertion the entries become [A,X,B], so that X is what the completion of A
\* finds at cursor 1.
C11_EnqueueNext ==
    [][/\ (uiPc = "qtn_lock_io" /\ uiPc' # "qtn_lock_io")
            => (insertion_offset' = insertion_offset + 1 /\ queue_index' = queue_index)
       /\ InsertNextStep
            => /\ uiPc' # "panicked"
               /\ queue' = Insert(queue, queue_index + insertion_offset, uiTrack)
               /\ queue_index' = queue_index
               /\ insertion_offset' = insertion_offset
               /\ (queue_index = 0 /\ insertion_offset = 1 /\ Len(queue) = 2)
                    => queue' = <<queue[1], uiTrack, queue[2]>>]_vars

\* C12: when the sink is empty QueueTrackNext inserts the track, hands it to
\* play_track and returns: the handler does not panic, and play_track is not left
\* waiting for a mutex whose guard the handler itself still holds.
C12_EnqueueNextWhenSilent ==
    [][(InsertNextStep /\ sink = <<>>)
          => /\ uiPc' = "play_io"
             /\ uiTrack' = uiTrack
             /\ \E i \in 1..Len(queue') : queue'[i] = uiTrack
             /\ holder'["insertion_offset"] # "ui"]_vars

\* The step is remove_track's decrement, `queue.remove(index)` and clamp.
RemoveStep == uiPc = "rm_lock_qi" /\ uiPc' # "rm_lock_qi"

\* q2 is q1 with exactly the entry at row i (0-based) deleted.
DeletedAt(q1, q2, i) ==
    /\ Len(q2) = Len(q1) - 1
    /\ \A j \in 1..Len(q2) : q2[j] = IF j <= i THEN q1[j] ELSE q1[j + 1]

\* C13: removing a valid row below the cursor takes one from the cursor, so that
\* now_playing() returns the same track before and after; removing a valid row above
\* the cursor leaves the cursor and now_playing() as they were; in both cases exactly
\* that row is deleted, the others keep their order, and no step of the command
\* touches the sink (no stop, no append).
C13_RemoveOther ==
    [][/\ (uiPc = "idle" /\ uiOp' = "RemoveFromQueue" /\ uiIndex' # queue_index)
            => (uiPc' = "rm_lock_q" /\ sink' = sink /\ stopped' = stopped)
       /\ (uiPc = "rm_lock_q" /\ uiPc' # "rm_lock_q")
            => (sink' = sink /\ stopped' = stopped /\ queue_index' = queue_index)
       /\ (RemoveStep /\ uiIndex < Len(queue) /\ uiIndex < queue_index)
            => /\ queue_index' = queue_index - 1
               /\ Get(queue', queue_index') = Get(queue, queue_index)
               /\ DeletedAt(queue, queue', uiIndex)
               /\ sink' = sink /\ stopped' = stopped
       /\ (RemoveStep /\ uiIndex < Len(queue) /\ queue_index < uiIndex)
            => /\ queue_index' = queue_index
               /\ Get(queue', queue_index') = Get(queue, queue_index)
               /\ DeletedAt(queue, queue', uiIndex)
               /\ sink' = sink /\ stopped' = stopped]_vars

\* The step ends a remove_track whose row was the cursor when the command read it
\* (the command went through next_track first), the row being an entry.
RemovePlayingStep == RemoveStep /\ uiIndex = uiCursor /\ uiIndex < Len(queue)

\* C14: after the removal of the entry at the cursor either the source in the sink
\* is the entry at the cursor, or the cursor is at the end and nothing plays
\* (the sink is empty, or stopped and about to be flushed).
C14_RemovePlayingLeavesNoStaleTrack ==
    [][RemovePlayingStep
          => \/ /\ sink' # <<>>
                /\ ~stopped'
                /\ queue_index' < Len(queue')
                /\ Head(sink') = queue'[queue_index' + 1]
             \/ /\ queue_index' >= Len(queue')
                /\ (sink' = <<>> \/ stopped')]_vars

\* C15: remove_track with a row that is not an entry (index >= queue.len()) is
\* ignored: the main thread does not panic and the entries, the cursor, the
\* insertion offset and the sink are left as they were.
C15_RemoveOutOfRangeIgnored ==
    [][(RemoveStep /\ uiIndex >= Len(queue))
          => /\ uiPc' # "panicked"
             /\ UNCHANGED <<queue, queue_index, insertion_offset, sink, stopped>>]_vars

\* C16: previous_track first stops the sink, then sets the cursor to
\* max(cursor - 1, 0) and hands the entry at the new cursor, if there is one, to
\* play_track (on a queue with entries and a cursor in range there is one); when
\* the append returns that entry is the only source of the sink, from its start.
\* From cursor 0 the first entry is started again.  The entries are not changed.
C16_PreviousTrack ==
    [][/\ (uiPc = "idle" /\ uiOp' = "PrevTrack")
            => (stopped' /\ queue_index' = queue_index /\ queue' = queue)
       /\ (uiPc = "pt_lock_qi" /\ uiPc' # "pt_lock_qi")
            => /\ queue_index' = (IF queue_index - 1 > 0 THEN queue_index - 1 ELSE 0)
               /\ queue' = queue
               /\ stopped
               /\ (queue # <<>> /\ queue_index <= Len(queue)) => queue_index' < Len(queue)
       /\ (uiPc = "pt_lock_q" /\ uiPc' # "pt_lock_q")
            => /\ queue_index' = queue_index /\ queue' = queue
               /\ queue_index < Len(queue)
                    => (uiPc' = "play_io" /\ uiTrack' = queue[queue_index + 1])
               /\ queue_index >= Len(queue) => uiPc' = "idle"
       /\ (uiOp = "PrevTrack" /\ uiPc = "play_append" /\ uiPc' # "play_append")
            => /\ sink' = <<queue[queue_index + 1]>>
               /\ ~stopped'
               /\ queue_index' = queue_index /\ queue' = queue
       /\ (uiOp = "PrevTrack" /\ uiPc = "play_io")
            => (queue_index' = queue_index /\ queue' = queue)]_vars

\* previous_track, called at cursor 2 of three distinct entries, has stopped the
\* sink, stepped back to cursor 1 and is about to append that entry.
C16_Witness ==
    /\ uiOp = "PrevTrack"
    /\ uiPc = "play_append"
    /\ queue = <<"A", "B", "C">>
    /\ queue_index = 1
    /\ uiTrack = "B"
    /\ stopped
    /\ sink = <<>>

\* C17: a change of the repeat mode goes Off -> Queue -> Single -> Off and changes
\* nothing else: not the entries, the cursor or the insertion offset, not the
\* sources in the sink or its stop flag, no mutex and no thread's position.
C17_CycleRepeatModeIsPure ==
    [][repeat_mode' # repeat_mode
          => /\ <<repeat_mode, repeat_mode'>>
                  \in {<<"Off", "Queue">>, <<"Queue", "Single">>, <<"Single", "Off">>}
             /\ UNCHANGED <<queue, queue_index, insertion_offset, sink, stopped>>
             /\ UNCHANGED <<holder, uiPc, cbPc, cbTrack>>]_vars

\* The mode has been cycled twice while A plays with a track queued next: the
\* cursor, the offset and the sink are as the commands before left them.
C17_Witness ==
    /\ Quiescent
    /\ repeat_mode = "Single"
    /\ queue = <<"A", "C", "B">>
    /\ queue_index = 0
    /\ insertion_offset = 1
    /\ sink = <<"A">>
    /\ ~stopped

\* The step is now_playing's read of the entry at the cursor and its return.
NowPlayingStep == uiPc = "np_lock_qi" /\ uiPc' # "np_lock_qi"

\* C18: now_playing() returns the entry at the cursor; it returns none exactly
\* when the cursor equals the length or the queue is empty; neither of its steps
\* changes the entries, the cursor, the offset, the mode or the sink.
C18_NowPlaying ==
    [][/\ NowPlayingStep
            => /\ queue_index < Len(queue) => NowPlaying = queue[queue_index + 1]
               /\ (NowPlaying = None) <=> (queue_index = Len(queue) \/ queue = <<>>)
       /\ ((uiPc = "idle" /\ uiPc' = "np_lock_qi") \/ NowPlayingStep)
            => UNCHANGED <<shared, sink, stopped>>]_vars

\* The step completes a sink.append of play_track on the UI thread: a track is
\* started by QueueTrack, next_track, previous_track or remove_track.
UiAppendStep == uiPc = "play_append" /\ uiPc' # "play_append"

\* C19: whenever a transition has started a track (the append of play_track has
\* returned, on either thread) the insertion offset is 0.
C19_OffsetResetOnStart ==
    [][(UiAppendStep \/ EndAppendStep) => insertion_offset' = 0]_vars

\* The step takes the audible source out of the sink.
SourceLeavesStep == sink # <<>> /\ (EndAppendStep \/ sink' = <<>>)

\* C20: every source put into the sink gets its on_track_end exactly once, also
\* when it is stopped: a source leaves the sink only in the step in which its own
\* on_track_end returns (so the signal has fired, and cannot fire again).
C20_OneSignalPerSource ==
    [][SourceLeavesStep => (cbPc # "idle" /\ cbPc' = "idle")]_vars

----------------------------------------------------------------------------
\* Tracks whose playback cannot be started (player.rs 431-436).  play_track opens
\* the file with `.expect(...)` and builds the decoder under `if let Ok(decoder)`:
\* a file that is gone panics the calling thread, a file that does not decode makes
\* play_track return without resetting the offset and without appending.  The
\* specification below is Spec with one such track in the library.

\* The library track whose file is gone or does not decode.
Unplayable == {"C"}

\* play_track on the UI thread, the file opens and decodes.
UiPlayDecoded == uiTrack \notin Unplayable /\ UiPlayResetOffset

\* play_track in the closure, the file opens and decodes.
EndPlayDecoded == cbTrack \notin Unplayable /\ EndPlayResetOffset

\* play_track on the UI thread: `Decoder::try_from(file)` is Err, play_track returns.
UiPlayDecodeFails ==
    /\ uiPc = "play_io"
    /\ uiTrack \in Unplayable
    /\ NextTrackReturn
    /\ trace' = TraceAfter(uiOp)
    /\ UNCHANGED <<shared, sink, stopped, cbVars>>
    /\ UNCHANGED <<rest, run>>

\* play_track on the UI thread: `File::open(..).expect(..)` panics.
UiPlayOpenFails ==
    /\ uiPc = "play_io"
    /\ uiTrack \in Unplayable
    /\ UiPanic
    /\ UNCHANGED <<shared, sink, stopped, cbVars, trace>>
    /\ UNCHANGED <<rest, run>>

\* play_track in the closure: the decoder is Err, the closure returns and the
\* finished source leaves the sink.
EndPlayDecodeFails ==
    /\ Alive
    /\ cbPc = "cb_play_io"
    /\ cbTrack \in Unplayable
    /\ EndReturn
    /\ sink' = Tail(sink)
    /\ UNCHANGED <<shared, stopped, uiOp, uiPc, uiLocals, trace>>
    /\ UNCHANGED <<rest, run>>

\* play_track in the closure: `File::open(..).expect(..)` panics on the audio
\* thread; the unwinding drops the closure's guards, which poisons their mutexes.
EndPlayOpenFails ==
    /\ Alive
    /\ cbPc = "cb_play_io"
    /\ cbTrack \in Unplayable
    /\ cbPc' = "panicked"
    /\ holder' = [m \in Mutexes |-> IF holder[m] = "cb" THEN "poisoned" ELSE holder[m]]
    /\ UNCHANGED <<shared, sink, stopped, uiOp, uiPc, uiLocals, cbTrack, cbStale, trace>>
    /\ UNCHANGED <<rest, run>>

\* `lock().unwrap()` of a poisoned mutex panics the UI thread: in a handler at its
\* next lock, otherwise at the next draw (now_playing locks the queue).
UiLockPoisoned ==
    /\ Alive
    /\ LET m == IF uiPc = "idle" THEN "queue" ELSE UiWants
       IN  m # None /\ holder[m] = "poisoned"
    /\ UiPanic
    /\ UNCHANGED <<shared, sink, stopped, cbVars, trace>>
    /\ UNCHANGED <<rest, run>>

NextUnplayable ==
    \/ \E t \in Tracks : QueueTrackPush(t)
    \/ QueueTrackCheck
    \/ \E t \in Tracks : QueueTrackNextRead(t)
    \/ QueueTrackNextOffset
    \/ QueueTrackNextInsert
    \/ UiPlayDecoded
    \/ UiPlayDecodeFails
    \/ UiPlayOpenFails
    \/ UiPlayAppend
    \/ NextTrackStop
    \/ NextTrackLockIndex
    \/ NextTrackAdvance
    \/ PrevTrackStop
    \/ PrevTrackStepBack
    \/ PrevTrackGet
    \/ \E index \in 0..Len(queue) : RemoveRead(index)
    \/ RemoveNextTrackStop
    \/ RemoveLockQueue
    \/ RemoveEntry
    \/ CycleRepeatMode
    \/ NowPlayingLockQueue
    \/ NowPlayingRead
    \/ RenderQueueLockQueue
    \/ RenderQueueLockIndex
    \/ RenderQueueRow
    \/ TrackEnd
    \/ EndLockIndex
    \/ EndAdvance
    \/ EndPlayDecoded
    \/ EndPlayDecodeFails
    \/ EndPlayOpenFails
    \/ EndPlayAppend
    \/ SinkFlush
    \/ UiLockPoisoned

SpecUnplayable == Init /\ [][NextUnplayable]_vars

\* The step ends a play_track of the UI thread that could not start its track.
UiStartFailsStep == uiPc = "play_io" /\ uiTrack \in Unplayable /\ uiPc' # "play_io"

\* The step ends a play_track of the closure that could not start its track.
EndStartFailsStep == cbPc = "cb_play_io" /\ cbTrack \in Unplayable /\ cbPc' # "cb_play_io"

\* A playable entry lies behind the cursor.
LaterPlayable == \E j \in (queue_index + 2)..Len(queue) : queue[j] \notin Unplayable

\* C21: a track that cannot be opened or decoded does not end the player (no
\* thread panics), and when playable entries follow it the cursor does not stay on
\* it: the failed start moves the cursor on.
C21_UnplayableSkipped ==
    [][/\ UiStartFailsStep
            => /\ uiPc' # "panicked"
               /\ LaterPlayable => queue_index' > queue_index
       /\ EndStartFailsStep
            => /\ cbPc' # "panicked"
               /\ LaterPlayable => queue_index' > queue_index]_vars

----------------------------------------------------------------------------
\* The search bar and the search index on the UI thread.  The specification below
\* runs them while no playback command is issued.

\* Message::FocusSearchBar (player.rs 285-300), '/' in the library or the results.
FocusSearchBar ==
    /\ uiPc = "idle"
    /\ view \in {"Library", "SearchResults"}
    /\ view' = "SearchInput"
    /\ search_bar' = <<>>
    /\ results' = <<>>
    /\ pattern' = AllColumns(<<>>)
    /\ dirty' = TRUE
    /\ results_selected' = <<0>>
    /\ loopPc' = AfterKey(loopPc)
    /\ UNCHANGED <<worker, snapshot, playback, compared, controls, panels>>

\* The text of the search bar after a key: a character is added at the end,
\* Backspace deletes the last character.
Edited(text, key) ==
    IF key = "Backspace"
    THEN (IF text = <<>> THEN text ELSE SubSeq(text, 1, Len(text) - 1))
    ELSE Append(text, key)

\* handle_search_input_event, any key but Esc and Enter (player.rs 961-991): the
\* bar takes the key, every column is reparsed with the bar's first line and the
\* results are read from the matcher's snapshot.
SearchInputKey(key) ==
    /\ uiPc = "idle"
    /\ view = "SearchInput"
    /\ key \in Chars => Len(search_bar) < MaxQuery
    /\ search_bar' = Edited(search_bar, key)
    /\ pattern' = [c \in Columns |-> search_bar']
    /\ dirty' = TRUE
    /\ results' = snapshot
    /\ loopPc' = AfterKey(loopPc)
    /\ UNCHANGED <<view, worker, snapshot, playback, compared, controls, panels, results_selected>>

\* Message::FocusLibrary (player.rs 267-270), Esc in the search bar or the results.
FocusLibrary ==
    /\ uiPc = "idle"
    /\ view \in {"SearchInput", "SearchResults"}
    /\ view' = "Library"
    /\ loopPc' = AfterKey(loopPc)
    /\ UNCHANGED <<search_bar, pattern, dirty, worker, snapshot, results, playback,
                   compared, controls, panels, results_selected>>

\* Message::ShowSearchResults (player.rs 302-306), Enter in the search bar or
\* Ctrl+s in the library.
ShowSearchResults ==
    /\ uiPc = "idle"
    /\ view \in {"SearchInput", "Library"}
    /\ view' = "SearchResults"
    /\ results_selected' = <<0>>
    /\ loopPc' = AfterKey(loopPc)
    /\ UNCHANGED <<search_bar, pattern, dirty, worker, snapshot, results, playback,
                   compared, controls, panels>>

\* Mutation: the tick lets a running match finish instead of restarting it for
\* the changed pattern.
OnTickKeepsStaleJob(done) ==
    /\ uiPc = "idle"
    /\ LET job == IF worker # <<>> THEN worker ELSE IF dirty THEN <<pattern>> ELSE <<>>
       IN  /\ worker' = IF done THEN <<>> ELSE job
           /\ snapshot' = IF done /\ job # <<>> THEN Matches(job[1]) ELSE snapshot
    /\ dirty' = FALSE
    /\ results' = snapshot'
    /\ UNCHANGED <<loopPc, view, search_bar, pattern, playback, compared, controls, panels, results_selected>>

\* Mutation: the tick adds the snapshot to the results it already has.
OnTickAccumulates(done) ==
    /\ uiPc = "idle"
    /\ LET job == IF dirty THEN <<pattern>> ELSE worker
       IN  /\ worker' = IF done THEN <<>> ELSE job
           /\ snapshot' = IF done /\ job # <<>> THEN Matches(job[1]) ELSE snapshot
    /\ dirty' = FALSE
    /\ results' = results \o snapshot'
    /\ UNCHANGED <<loopPc, view, search_bar, pattern, playback, compared, controls, panels, results_selected>>

\* Player::on_tick (player.rs 649-654): `matcher.tick(10)`, then the results are
\* read from the snapshot.  done: the worker finishes within the 10 ms.
OnTick(done) ==
    /\ uiPc = "idle"
    /\ LET job == IF dirty THEN <<pattern>> ELSE worker
       IN  /\ worker' = IF done THEN <<>> ELSE job
           /\ snapshot' = IF done /\ job # <<>> THEN Matches(job[1]) ELSE snapshot
    /\ dirty' = FALSE
    /\ results' = snapshot'
    /\ loopPc' = AfterTick(loopPc)
    /\ UNCHANGED <<view, search_bar, pattern, playback, compared, controls, panels, results_selected>>

NextSearch ==
    \/ FocusSearchBar
    \/ \E key \in Chars \cup {"Backspace"} : SearchInputKey(key)
    \/ FocusLibrary
    \/ ShowSearchResults
    \/ \E done \in BOOLEAN : OnTick(done)

SpecSearch == Init /\ [][NextSearch]_vars

----------------------------------------------------------------------------
\* The step is an edit of the query in the search bar.
QueryEditStep == view = "SearchInput" /\ view' = "SearchInput" /\ dirty'

\* C22: an edit of the query gives every column the text of the search bar, and
\* right after it the results are no longer the match list of the query before
\* (when that list is not also the match list of the new query).
C22_SetQueryInvalidates ==
    [][QueryEditStep
          => /\ \A c \in Columns : pattern'[c] = search_bar'
             /\ (pattern' # pattern /\ Matches(pattern') # Matches(pattern))
                  => results' # Matches(pattern)]_vars

\* The texts the search bar can hold.
Texts == UNION {[1..n -> Chars] : n \in 0..MaxQuery}

\* The step is a tick.
TickStep == ~dirty' /\ view' = view

\* C23: the results are never a mixture of the matches of two queries: they are the
\* whole match list of one query, or empty; and when a tick leaves no match
\* running, the results are exactly the match list of the query that is set, also
\* when the match of an earlier query was still running when the query was edited.
C23_NoMixedResults ==
    /\ [](results = <<>> \/ \E q \in Texts : results = Matches(AllColumns(q)))
    /\ [][(TickStep /\ worker' = <<>>) => results' = Matches(pattern')]_vars

\* The match of "a" is still running when the query has become "ab"; the results
\* shown are those of the empty query the last finished match was for.
C23_Witness ==
    /\ view = "SearchInput"
    /\ worker = <<AllColumns(<<"a">>)>>
    /\ pattern = AllColumns(<<"a", "b">>)
    /\ dirty
    /\ results = Matches(AllColumns(<<>>))

\* C24: a tick that follows a tick with no edit of the query in between (the
\* pattern is not marked as changed) leaves the results as they are.
C24_PollIdempotent ==
    [][(TickStep /\ ~dirty) => results' = results]_vars

\* C24, amended: a tick that follows a tick with no edit of the query in between
\* leaves the results as they are when the earlier tick left no match running.
C24_PollIdempotentWhenDone ==
    [][(TickStep /\ ~dirty /\ worker = <<>>) => results' = results]_vars

\* A tick has finished the match of "a": the results are its match list and the
\* next tick has nothing to do.
C24_Witness ==
    /\ ~dirty
    /\ worker = <<>>
    /\ pattern = AllColumns(<<"a">>)
    /\ results = <<"A", "C">>

\* The step sets the query: the search bar is opened or edited.
SetQueryStep == view' = "SearchInput" /\ dirty'

\* What the index yields for the empty query: every track.
EmptyQueryResults == Matches(AllColumns(<<>>))

\* C25: the empty query yields one and the same result set however it is reached:
\* by opening the search bar, by deleting the typed characters, or by a tick that
\* finishes its match.  A finished match of the empty query is every track, so
\* that is the set the other two ways have to give.
C25_EmptyQueryConsistent ==
    [][/\ (SetQueryStep /\ pattern' = AllColumns(<<>>)) => results' = EmptyQueryResults
       /\ (TickStep /\ worker' = <<>> /\ pattern' = AllColumns(<<>>))
            => results' = EmptyQueryResults]_vars

\* C26: results is derived from the search index: in every state it is empty as
\* before the first match or the match list of some query text, and every step
\* that changes it sets it to the snapshot the index holds after the step; no
\* command gives it a value of its own.
C26_ResultsDerived ==
    /\ [](results = <<>> \/ \E q \in Texts : results = Matches(AllColumns(q)))
    /\ [][results' # results => results' = snapshot']_vars

----------------------------------------------------------------------------
\* Comparing and hashing two Track values.

\* Any two Track values.
InitTrack ==
    /\ InitPlayback
    /\ InitSearch
    /\ InitControls
    /\ InitPanels
    /\ selfTrack \in TrackValues
    /\ otherTrack \in TrackValues
    /\ NotCompared

\* self == other
TrackEqCall ==
    /\ eqResult = <<>>
    /\ eqResult' = <<TrackEq(selfTrack, otherTrack)>>
    /\ UNCHANGED <<loopPc, selfTrack, otherTrack, selfHash, otherHash, playback, search, controls, panels, results_selected>>

\* self.hash(state) with a fresh hasher
TrackHashSelf ==
    /\ selfHash = <<>>
    /\ selfHash' = <<TrackHash(selfTrack, <<>>)>>
    /\ UNCHANGED <<loopPc, selfTrack, otherTrack, eqResult, otherHash, playback, search, controls, panels, results_selected>>

\* other.hash(state) with a fresh hasher
TrackHashOther ==
    /\ otherHash = <<>>
    /\ otherHash' = <<TrackHash(otherTrack, <<>>)>>
    /\ UNCHANGED <<loopPc, selfTrack, otherTrack, eqResult, selfHash, playback, search, controls, panels, results_selected>>

NextTrack ==
    \/ TrackEqCall
    \/ TrackHashSelf
    \/ TrackHashOther

SpecTrack == InitTrack /\ [][NextTrack]_vars

\* C27: two Tracks compare equal exactly when their paths are equal (as paths
\* compare: component by component), whatever their title, artist, album and
\* duration are, and two Tracks that compare equal hash to the same value.
C27_TrackEqIsPathEq ==
    /\ eqResult # <<>> => (eqResult[1] <=> PathEq(selfTrack.path, otherTrack.path))
    /\ (eqResult = <<TRUE>> /\ selfHash # <<>> /\ otherHash # <<>>) => selfHash = otherHash

\* Equal paths written differently, every other field different: equal, same hash.
C27_Witness ==
    /\ eqResult = <<TRUE>>
    /\ selfTrack.path # otherTrack.path
    /\ selfTrack.title # otherTrack.title
    /\ selfTrack.artist # otherTrack.artist
    /\ selfTrack.album # otherTrack.album
    /\ selfTrack.duration # otherTrack.duration
    /\ selfHash # <<>>
    /\ selfHash = otherHash

\* C29: when the entry at the cursor is removed and it is not the last entry,
\* then after the removal the cursor has the removed row as its value,
\* now_playing() is the track that followed the removed one, and the sink plays
\* a source of that track, appended by this command's skip.
C29_RemovePlayingAdvancesFirst ==
    [][(RemovePlayingStep /\ uiIndex + 1 < Len(queue))
          => /\ queue_index' = uiIndex
             /\ Get(queue', queue_index') = queue[uiIndex + 2]
             /\ sink' # <<>>
             /\ ~stopped'
             /\ Head(sink') = queue[uiIndex + 2]]_vars

\* A track is playing and it is the entry at the cursor.
PlayingAtCursor ==
    /\ sink # <<>>
    /\ ~stopped
    /\ queue_index < Len(queue)
    /\ Head(sink) = queue[queue_index + 1]

\* C30: the QueueTrackNext calls handled one after the other while one track plays,
\* with no track start and no removal in between, build a run in call order right
\* after the cursor: the k-th call inserts its track at row cursor + k and leaves
\* the insertion offset at k, the rows cursor + 1 .. cursor + k hold X1 .. Xk and
\* every other entry keeps its place relative to the others.  In mode Off each
\* completion moves the cursor by one and starts the entry there, so the run is
\* played in call order (X1 first) before the entries that followed the cursor.
C30_PlayNextRun ==
    [][/\ (InsertNextStep /\ run # Broken /\ PlayingAtCursor)
            => /\ uiPc' # "panicked"
               /\ run' = Append(run, uiTrack)
               /\ insertion_offset' = Len(run')
               /\ queue_index' = queue_index
               /\ queue' = Insert(queue, queue_index + Len(run'), uiTrack)
               /\ \A i \in 1..Len(run') : queue'[queue_index + 1 + i] = run'[i]
               /\ sink' = sink
       /\ (EndAdvanceStep /\ repeat_mode = "Off" /\ queue_index + 1 < Len(queue))
            => /\ queue_index' = queue_index + 1
               /\ cbTrack' = queue[queue_index + 2]
               /\ (run # Broken /\ run # <<>> /\ PlayingAtCursor) => cbTrack' = run[1]
       /\ (EndAppendStep /\ repeat_mode = "Off") => sink' = <<cbTrack>>]_vars

\* A run of two has been built and the completion of the current track is about to
\* start its first track.
C30_Witness ==
    /\ run # Broken
    /\ Len(run) = 2
    /\ insertion_offset = 2
    /\ repeat_mode = "Off"
    /\ cbPc = "cb_play_io"
    /\ cbTrack = run[1]
    /\ queue = <<"A">> \o run
    /\ run[1] # run[2]

\* render_queue's in_temp_queue: the rows the queue view marks as temporarily queued.
InTempQueue(q, c, o) == {i \in 0..(Len(q) - 1) : i > c /\ i <= c + o}

\* The rows right after the cursor that hold a run r of inserted tracks.
RunRows(c, r) == (c + 1)..(c + Len(r))

\* C31: with no handler and no completion running, while a track plays at the
\* cursor, the insertion offset is the number of tracks QueueTrackNext inserted since that track started and
\* the rows the queue view marks are the rows of those tracks; a removal of a
\* row other than the cursor keeps this true: when the row is one of the
\* inserted tracks the offset counts one less afterwards, the marked rows being
\* the rows of the inserted tracks that remain.
C31_OffsetCountsInserted ==
    /\ []((Quiescent /\ run # Broken /\ PlayingAtCursor)
            => /\ insertion_offset = Len(run)
               /\ InTempQueue(queue, queue_index, insertion_offset)
                    = RunRows(queue_index, run)
               /\ \A i \in 1..Len(run) : queue[queue_index + 1 + i] = run[i])
    /\ [][(/\ RemoveStep
           /\ uiIndex < Len(queue)
           /\ uiIndex # uiCursor
           /\ run # Broken
           /\ PlayingAtCursor)
            => LET inside == uiIndex \in RunRows(queue_index, run)
                   left == IF inside THEN Len(run) - 1 ELSE Len(run)
               IN  InTempQueue(queue', queue_index', insertion_offset')
                     = (queue_index' + 1)..(queue_index' + left)]_vars

\* C32: whenever QueueTrackNext can be issued (the UI thread is between
\* commands) cursor + insertion_offset <= queue.len() - 1, so the row
\* cursor + insertion_offset + 1 the handler inserts at is at most queue.len()
\* and the insertion never panics.
C32_InsertNeverPanics ==
    /\ [](uiPc = "idle" => queue_index + insertion_offset + 1 <= Len(queue))
    /\ [][InsertNextStep => uiPc' # "panicked"]_vars

\* C33: no thread waits for a mutex whose guard it holds itself: neither the UI
\* thread inside a command nor the audio thread inside on_track_end.
C33_NoSelfRelock ==
    /\ ~(UiWants # None /\ holder[UiWants] = "ui")
    /\ ~(CbWants # None /\ holder[CbWants] = "cb")

\* C34: when no handler and no completion is running the sink holds at most one
\* source, and a source that plays there (the sink not being stopped) is the entry
\* at the cursor, the track now_playing() returns.
C34_SinkPlaysNowPlaying ==
    Quiescent
      => /\ Len(sink) <= 1
         /\ (sink # <<>> /\ ~stopped) => (NowPlaying # None /\ Head(sink) = NowPlaying)

\* Both threads wait for a mutex the other one holds: neither takes another step.
BothBlocked ==
    /\ UiWants # None
    /\ CbWants # None
    /\ holder[UiWants] = "cb"
    /\ holder[CbWants] = "ui"

\* C35: in mode Off the play-through never comes to rest before the end of the
\* queue: while entries remain after the cursor, the threads are never both
\* blocked for good with the completion that would start the next entry
\* unfinished.  (A state of this kind has no successor, so in it the entries after
\* the cursor are never started, whatever the scheduling.)
C35_PlayThroughNeverStuck ==
    ~(/\ repeat_mode = "Off"
      /\ queue_index + 1 < Len(queue)
      /\ BothBlocked)

----------------------------------------------------------------------------
\* The playback controls that leave the queue alone (player.rs 309-325, 377-392).

\* Highest volume, in percent.
MaxVolume == 100

\* The steps the volume is changed by.
Percentages == {50}

\* The tracks queued while the controls are exercised.
ControlTracks == {"A", "B"}

\* Message::PlayPause: `if sink.is_paused() { sink.play() } else { sink.pause() }`
PlayPause ==
    /\ uiPc = "idle"
    /\ paused' = ~paused
    /\ loopPc' = AfterKey(loopPc)
    /\ UNCHANGED <<volume_percentage, playback, search, compared, panels, results_selected>>

\* Message::VolumeUp: increment_volume
VolumeUp(percentage) ==
    /\ uiPc = "idle"
    /\ volume_percentage' = Min(volume_percentage + percentage, MaxVolume)
    /\ loopPc' = AfterKey(loopPc)
    /\ UNCHANGED <<paused, playback, search, compared, panels, results_selected>>

\* Message::VolumeDown: decrement_volume (saturating_sub)
VolumeDown(percentage) ==
    /\ uiPc = "idle"
    /\ volume_percentage' = IF percentage > volume_percentage THEN 0
                            ELSE volume_percentage - percentage
    /\ loopPc' = AfterKey(loopPc)
    /\ UNCHANGED <<paused, playback, search, compared, panels, results_selected>>

NextControls ==
    \/ \E t \in ControlTracks : QueueTrackPush(t)
    \/ QueueTrackCheck
    \/ \E t \in ControlTracks : QueueTrackNextRead(t)
    \/ QueueTrackNextOffset
    \/ QueueTrackNextInsert
    \/ UiPlayResetOffset
    \/ UiPlayAppend
    \/ NextTrackStop
    \/ NextTrackLockIndex
    \/ NextTrackAdvance
    \/ PrevTrackStop
    \/ PrevTrackStepBack
    \/ PrevTrackGet
    \/ \E index \in 0..Len(queue) : RemoveRead(index)
    \/ RemoveNextTrackStop
    \/ RemoveLockQueue
    \/ RemoveEntry
    \/ CycleRepeatMode
    \/ NowPlayingLockQueue
    \/ NowPlayingRead
    \/ RenderQueueLockQueue
    \/ RenderQueueLockIndex
    \/ RenderQueueRow
    \/ TrackEnd
    \/ EndLockIndex
    \/ EndAdvance
    \/ EndPlayResetOffset
    \/ EndPlayAppend
    \/ SinkFlush
    \/ PlayPause
    \/ \E percentage \in Percentages : VolumeUp(percentage)
    \/ \E percentage \in Percentages : VolumeDown(percentage)

SpecControls == Init /\ [][NextControls]_vars

\* The step is queue_track's push.
PushStep == uiPc = "idle" /\ uiOp' = "QueueTrack"

----------------------------------------------------------------------------
\* Focus and the sidebar (player.rs 267-284, 736-878).

\* Stands for usize::MAX, which `len - 1` wraps to in a release build when len
\* is 0: a row beyond every queue and every result list.
FarRow == MaxLen + 1

\* `len - 1` in usize, as <<value>>; on len = 0 a debug build panics (<<>>) and a
\* release build wraps.
SubOne(len, wraps) ==
    IF len > 0 THEN <<len - 1>> ELSE IF wraps THEN <<FarRow>> ELSE <<>>

\* The row 'j' / Down selects in a table of len rows, <<>> when computing it panics.
DownRow(selected, len, wraps) ==
    IF selected = <<>> THEN <<0>>
    ELSE LET last == SubOne(len, wraps)
         IN  IF last = <<>> THEN <<>>
             ELSE IF selected[1] >= last[1] THEN <<0>> ELSE <<selected[1] + 1>>

\* The row 'k' / Up selects.
UpRow(selected, len, wraps) ==
    IF selected = <<>> THEN <<0>>
    ELSE IF selected[1] = 0 THEN SubOne(len, wraps) ELSE <<selected[1] - 1>>

\* The row a navigation key selects.
KeyRow(key, selected, len, wraps) ==
    CASE key = "j" -> DownRow(selected, len, wraps)
      [] key = "k" -> UpRow(selected, len, wraps)
      [] key = "Home" -> <<0>>
      [] key = "End" -> SubOne(len, wraps)

NavKeys == {"j", "k", "Home", "End"}

\* The key handler reads the length of the table (for the queue: under its lock).
ReadsLen(key, selected) ==
    \/ key = "j" /\ selected # <<>>
    \/ key = "k" /\ selected = <<0>>
    \/ key = "End"

\* handle_key_event: the key is not taken by the search bar or the help overlay.
GlobalKeys == view # "SearchInput" /\ ~show_help

\* handle_key_event: the key reaches the handler of the main panel.
MainPanelKeys == GlobalKeys /\ focus = "MainPanel"

\* handle_key_event: the key reaches handle_sidebar_event.
SidebarKeys == GlobalKeys /\ focus = "Sidebar"

\* The UI thread panics inside a key handler that holds no guard of the queue.
KeyPanics ==
    /\ UiPanic
    /\ UNCHANGED <<shared, sink, stopped, cbVars, trace, run>>

\* Ctrl+l in the main panel: Message::FocusSidebar
FocusSidebar ==
    /\ MainPanelKeys
    /\ uiPc = "idle"
    /\ Free("queue")
    /\ IF queue = <<>>
       THEN UNCHANGED <<focus, sidebar_selected>>
       ELSE /\ sidebar_selected = <<>> => Free("queue_index")
            /\ sidebar_selected' = IF sidebar_selected = <<>> THEN <<queue_index>>
                                   ELSE sidebar_selected
            /\ focus' = "Sidebar"
    /\ loopPc' = AfterKey(loopPc)
    /\ UNCHANGED <<show_help, quit, results_selected, playback, search,
                   compared, controls>>

\* Ctrl+h in the sidebar: Message::FocusMainPanel
FocusMainPanel ==
    /\ SidebarKeys
    /\ uiPc = "idle"
    /\ focus' = "MainPanel"
    /\ loopPc' = AfterKey(loopPc)
    /\ UNCHANGED <<sidebar_selected, show_help, quit, results_selected,
                   playback, search, compared, controls>>

\* j, k, Home, End in the sidebar: the row is computed from queue.len(), then
\* Message::SelectSidebarQueueRow(row).
SidebarKey(key, wraps) ==
    /\ SidebarKeys
    /\ uiPc = "idle"
    /\ ReadsLen(key, sidebar_selected) => Free("queue")
    /\ LET row == KeyRow(key, sidebar_selected, Len(queue), wraps)
       IN  IF row = <<>>
           THEN KeyPanics /\ UNCHANGED sidebar_selected
           ELSE sidebar_selected' = row /\ UNCHANGED playback
    /\ loopPc' = AfterKey(loopPc)
    /\ UNCHANGED <<focus, show_help, quit, results_selected, search, compared,
                   controls>>

\* 'd' in the sidebar: Message::RemoveFromQueue(selected)
SidebarRemove ==
    /\ SidebarKeys
    /\ sidebar_selected # <<>>
    /\ RemoveRead(sidebar_selected[1])

\* The tracks queued while the sidebar is exercised.
SidebarTracks == {"A"}

NextSidebar ==
    \/ MainPanelKeys /\ \E t \in SidebarTracks : QueueTrackPush(t)
    \/ QueueTrackCheck
    \/ MainPanelKeys /\ \E t \in SidebarTracks : QueueTrackNextRead(t)
    \/ QueueTrackNextOffset
    \/ QueueTrackNextInsert
    \/ UiPlayResetOffset
    \/ UiPlayAppend
    \/ GlobalKeys /\ NextTrackStop
    \/ NextTrackLockIndex
    \/ NextTrackAdvance
    \/ GlobalKeys /\ PrevTrackStop
    \/ PrevTrackStepBack
    \/ PrevTrackGet
    \/ SidebarRemove
    \/ RemoveNextTrackStop
    \/ RemoveLockQueue
    \/ RemoveEntry
    \/ GlobalKeys /\ CycleRepeatMode
    \/ NowPlayingLockQueue
    \/ NowPlayingRead
    \/ RenderQueueLockQueue
    \/ RenderQueueLockIndex
    \/ RenderQueueRow
    \/ TrackEnd
    \/ EndLockIndex
    \/ EndAdvance
    \/ EndPlayResetOffset
    \/ EndPlayAppend
    \/ SinkFlush
    \/ FocusSidebar
    \/ FocusMainPanel
    \/ \E key \in NavKeys, wraps \in BOOLEAN : SidebarKey(key, wraps)

SpecSidebar == Init /\ [][NextSidebar]_vars

\* The step is Message::FocusSidebar giving the focus to the sidebar.
FocusSidebarStep == focus = "MainPanel" /\ focus' = "Sidebar"

\* C37: the focus moves to the sidebar only when the queue is not empty, and
\* while the focus is on the sidebar a row is selected and it is a row of the
\* queue, so that the keys of the sidebar never meet an empty queue or a row
\* that is not an entry.
C37_SidebarSelectionValid ==
    /\ [][FocusSidebarStep => queue # <<>>]_vars
    /\ [](focus = "Sidebar"
            => /\ queue # <<>>
               /\ sidebar_selected # <<>>
               /\ sidebar_selected[1] < Len(queue))

----------------------------------------------------------------------------
\* The search results table (player.rs 995-1071).

\* handle_key_event: the key reaches handle_search_results_event.
ResultsKeys == MainPanelKeys /\ view = "SearchResults"

\* j, k, Home, End in the results: the row is computed from results.len(), then
\* Message::SelectSearchResultRow(row).
ResultsKey(key, wraps) ==
    /\ ResultsKeys
    /\ uiPc = "idle"
    /\ LET row == KeyRow(key, results_selected, Len(results), wraps)
       IN  IF row = <<>>
           THEN KeyPanics /\ UNCHANGED results_selected
           ELSE results_selected' = row /\ UNCHANGED playback
    /\ loopPc' = AfterKey(loopPc)
    /\ UNCHANGED <<search, compared, controls, panels>>

\* Enter (alt: with Alt) in the results: the selected result is cloned and sent
\* as QueueTrack or QueueTrackNext; `.expect("Should be valid index")` panics
\* when the selected row is not a result.
ResultsEnter(alt) ==
    /\ ResultsKeys
    /\ results_selected # <<>>
    /\ IF results_selected[1] < Len(results)
       THEN LET track == results[results_selected[1] + 1]
            IN  IF alt THEN QueueTrackNextRead(track) ELSE QueueTrackPush(track)
       ELSE /\ uiPc = "idle"
            /\ KeyPanics
            /\ UNCHANGED rest

NextResults ==
    \/ FocusSearchBar
    \/ \E key \in Chars \cup {"Backspace"} : SearchInputKey(key)
    \/ FocusLibrary
    \/ ShowSearchResults
    \/ \E done \in BOOLEAN : OnTick(done)
    \/ \E key \in NavKeys, wraps \in BOOLEAN : ResultsKey(key, wraps)
    \/ \E alt \in BOOLEAN : ResultsEnter(alt)
    \/ QueueTrackCheck
    \/ QueueTrackNextOffset
    \/ QueueTrackNextInsert
    \/ UiPlayResetOffset
    \/ UiPlayAppend

SpecResults == Init /\ [][NextResults]_vars

\* C38: while the main panel shows the search results, a row is selected and it
\* is a row of the results, so that Enter finds a track and j, k and End never
\* compute results.len() - 1 on an empty list.
C38_ResultSelectionValid ==
    view = "SearchResults"
        => results_selected # <<>> /\ results_selected[1] < Len(results)

----------------------------------------------------------------------------
\* The run loop and the dispatch of key presses (player.rs 627-647, 723-822).

\* Message::Quit
Quit ==
    /\ uiPc = "idle"
    /\ quit' = TRUE
    /\ loopPc' = AfterKey(loopPc)
    /\ UNCHANGED <<focus, sidebar_selected, show_help, results_selected, playback, search,
                   compared, controls>>

\* Message::ToggleHelp
ToggleHelp ==
    /\ uiPc = "idle"
    /\ show_help' = ~show_help
    /\ loopPc' = AfterKey(loopPc)
    /\ UNCHANGED <<focus, sidebar_selected, quit, results_selected, playback, search,
                   compared, controls>>

\* A key press no arm of the handler sends a message for (`_ => {}`).
NoCommand ==
    /\ uiPc = "idle"
    /\ loopPc' = AfterKey(loopPc)
    /\ UNCHANGED <<playback, display>>

\* The key presses handled.
Keys == {"q", "?", "/", "Esc", "Enter", "Ctrl+l", "Ctrl+h", "p", "d", "End"}

\* The track under the selection of the library table.
LoopTracks == {"A"}

\* Longest text typed into the search bar and largest queue built while the
\* run loop is exercised.
LoopQuery == 1
LoopLen == 1

\* handle_search_input_event: Esc and Enter leave the search bar, every other
\* key is input of the search bar.
HandleSearchInputEvent(key) ==
    CASE key = "Esc" -> FocusLibrary
      [] key = "Enter" -> ShowSearchResults
      [] OTHER -> Len(search_bar) < LoopQuery /\ SearchInputKey(key)

\* handle_sidebar_event
HandleSidebarEvent(key) ==
    CASE key = "Ctrl+h" -> FocusMainPanel
      [] key \in NavKeys -> \E wraps \in BOOLEAN : SidebarKey(key, wraps)
      [] key = "d" -> IF sidebar_selected # <<>> THEN SidebarRemove ELSE NoCommand
      [] OTHER -> NoCommand

\* handle_library_event
HandleLibraryEvent(key) ==
    CASE key = "Ctrl+l" -> FocusSidebar
      [] key = "/" -> FocusSearchBar
      [] key = "Enter" -> Len(queue) < LoopLen /\ \E t \in LoopTracks : QueueTrackPush(t)
      [] OTHER -> NoCommand

\* handle_search_results_event
HandleSearchResultsEvent(key) ==
    CASE key = "Esc" -> FocusLibrary
      [] key = "Ctrl+l" -> FocusSidebar
      [] key \in NavKeys -> \E wraps \in BOOLEAN : ResultsKey(key, wraps)
      [] key = "/" -> FocusSearchBar
      [] key = "Enter" -> IF results_selected # <<>>
                       THEN Len(queue) < LoopLen /\ ResultsEnter(FALSE)
                       ELSE NoCommand
      [] OTHER -> NoCommand

\* Mutation: 'q' is looked at before the help overlay.
HandleKeyQuitFirst(key) ==
    /\ loopPc = "handle"
    /\ uiPc = "idle"
    /\ IF view = "SearchInput" THEN HandleSearchInputEvent(key)
     ELSE IF key = "q" THEN Quit
     ELSE IF show_help THEN ToggleHelp
     ELSE IF key = "?" THEN ToggleHelp
     ELSE IF key = "p" THEN PlayPause
     ELSE IF focus = "Sidebar" THEN HandleSidebarEvent(key)
     ELSE IF view = "Library" THEN HandleLibraryEvent(key)
     ELSE HandleSearchResultsEvent(key)

\* handle_key_event: the arms of the match in their order.
HandleKey(key) ==
    /\ loopPc = "handle"
    /\ uiPc = "idle"
    /\ IF view = "SearchInput" THEN HandleSearchInputEvent(key)
     ELSE IF show_help THEN ToggleHelp
     ELSE IF key = "q" THEN Quit
     ELSE IF key = "?" THEN ToggleHelp
     ELSE IF key = "p" THEN PlayPause
     ELSE IF focus = "Sidebar" THEN HandleSidebarEvent(key)
     ELSE IF view = "Library" THEN HandleLibraryEvent(key)
     ELSE HandleSearchResultsEvent(key)

\* The outcomes of terminal.draw, event::poll and event::read.
IoOutcomes == {"ok", "error"}

\* terminal.draw(...)?
LoopDraw(io) ==
    /\ loopPc = "draw"
    /\ uiPc = "idle"
    /\ loopPc' = IF io = "ok" THEN "poll" ELSE "failed"
    /\ UNCHANGED <<playback, display>>

\* event::poll(timeout)?: an event is ready or the timeout passes.
LoopPoll(io, ready) ==
    /\ loopPc = "poll"
    /\ loopPc' = IF io = "error" THEN "failed" ELSE IF ready THEN "read" ELSE "tick"
    /\ UNCHANGED <<playback, display>>

\* handle_events: event::read()?; only a key press is handled.
LoopRead(io, press) ==
    /\ loopPc = "read"
    /\ loopPc' = IF io = "error" THEN "failed" ELSE IF press THEN "handle" ELSE "tick"
    /\ UNCHANGED <<playback, display>>

\* `if last_tick.elapsed() >= tick_rate { self.on_tick(); ... }`
LoopTick(elapsed) ==
    /\ loopPc = "tick"
    /\ uiPc = "idle"
    /\ IF elapsed
       THEN \E done \in BOOLEAN : OnTick(done)
       ELSE loopPc' = "check" /\ UNCHANGED <<playback, display>>

\* `if self.model.player_state.quit { return Ok(()); }`
LoopCheckQuit ==
    /\ loopPc = "check"
    /\ loopPc' = IF quit THEN "returned" ELSE "draw"
    /\ UNCHANGED <<playback, display>>

NextLoop ==
    \/ \E io \in IoOutcomes : LoopDraw(io)
    \/ \E io \in IoOutcomes, ready \in BOOLEAN : LoopPoll(io, ready)
    \/ \E io \in IoOutcomes, press \in BOOLEAN : LoopRead(io, press)
    \/ \E key \in Keys : HandleKey(key)
    \/ \E elapsed \in BOOLEAN : LoopTick(elapsed)
    \/ LoopCheckQuit
    \/ QueueTrackCheck
    \/ UiPlayResetOffset
    \/ UiPlayAppend
    \/ NextTrackLockIndex
    \/ NextTrackAdvance
    \/ RemoveNextTrackStop
    \/ RemoveLockQueue
    \/ RemoveEntry

SpecLoop == Init /\ [][NextLoop]_vars

\* C39: while the help overlay is shown a key press closes it and does nothing
\* else (quit, playback, queue, focus, view and selections stay as they are);
\* the overlay is never shown while the main panel is in the SearchInput view,
\* where every key but Esc and Enter is input of the search bar.
C39_HelpOverlayTakesKeys ==
    /\ [][\A key \in Keys :
            (show_help /\ HandleKey(key))
                => /\ ~show_help'
                   /\ UNCHANGED <<playback, search, compared, controls, focus,
                                  sidebar_selected, results_selected, quit>>]_vars
    /\ [](show_help /\ loopPc = "handle" => \A key \in Keys : ENABLED HandleKey(key))
    /\ [](~(show_help /\ view = "SearchInput"))
    /\ [][\A key \in Keys \ {"Esc", "Enter"} :
            (view = "SearchInput" /\ HandleKey(key)) => SearchInputKey(key)]_vars

\* The help overlay is shown over the search results with the focus on the
\* sidebar while a track plays, and a key press is about to be handled.
C39_Witness ==
    /\ show_help
    /\ loopPc = "handle"
    /\ view = "SearchResults"
    /\ focus = "Sidebar"
    /\ sink # <<>>

\* Player::run is over: it returned Ok, it returned the error of draw, poll or
\* read, or the UI thread panicked inside it.
LoopEnded == loopPc \in {"returned", "failed"} \/ uiPc = "panicked"

\* C40: once Quit is processed the quit flag stays set, the loop handles no
\* further event and returns at the end of the iteration (only the tick and
\* the look at the flag are left of it); and the loop ends only because quit is
\* set or because draw, poll or read failed.
C40_QuitEndsLoop ==
    /\ [][quit => quit']_vars
    /\ [](quit => loopPc \in {"tick", "check", "returned"})
    /\ [](LoopEnded => quit \/ loopPc = "failed")

====
